---------------------------- MODULE Spec2Model ----------------------------
(***************************************************************************)
(* CSV bulk ingestion of orders: backend/app/routers/upload.py             *)
(* (upload_orders_csv), over the orders table of backend/app/models.py.    *)
(*                                                                         *)
(* One upload request is modelled as a run: the payload checks, then one   *)
(* step per data row of the file (the body of the `for` loop, including    *)
(* the flush of a full batch), then the end of the stream (the flush of    *)
(* the remainder and the report).  The uploaded file is revealed row by    *)
(* row; `rows` records the rows read so far.  Requests follow each other   *)
(* on one store.                                                           *)
(*                                                                         *)
(* Text values are tokens; strip(), lower(), int(), float() and            *)
(* datetime.fromisoformat() are tables over the tokens that occur.         *)
(* Floating point amounts are counted in hundredths.                       *)
(***************************************************************************)
EXTENDS Integers, Sequences, FiniteSets

\* ------------------------------------------------------------------ bounds

\* Data rows read from new files in a behaviour.
MaxRows == 3

\* Upload requests in a behaviour.
MaxUploads == 2

\* Flush threshold of the batch; 1000 in the source, scaled to the file length.
BATCH_SIZE == 2

\* Cap of the row entries of errors; 100 in the source, scaled to the file length.
MAX_ERRORS == 2

\* ------------------------------------------------------- program constants

MAX_FILE_SIZE == 104857600

\* First value of enumerate(csv_reader, start=2).
FIRST_ROW_NUM == 2

\* ------------------------------------------------------------------- rows

Columns ==
    {"order_id", "customer_email", "customer_name", "product_name", "quantity",
     "unit_price", "total_amount", "status", "order_date"}

\* csv.DictReader's restval: the value of a column the line is too short for.
None == "<None>"

\* A line csv.reader cannot tokenize (a bare carriage return inside an unquoted
\* field, a field longer than the field size limit): next() raises csv.Error.
BadLine == [csv_error |-> "line"]

BaseLine ==
    [order_id |-> "O1", customer_email |-> "ann@example.com", customer_name |-> "Ann",
     product_name |-> "Widget", quantity |-> "1", unit_price |-> "9.99",
     total_amount |-> "9.99", status |-> "Pending", order_date |-> "2024-01-15"]

\* The well-formed lines a file is made of: valid rows on two order ids (one
\* written with surrounding blanks), and one row per way of being wrong, two of
\* them ways the handler does not look for.
Lines ==
    { BaseLine,
      [BaseLine EXCEPT !.order_id = " O1 ", !.quantity = "2", !.total_amount = "19.98",
                       !.status = "shipped"],
      [BaseLine EXCEPT !.order_id = "O2", !.status = "delivered"],
      [BaseLine EXCEPT !.order_id = "   "],
      [BaseLine EXCEPT !.customer_email = ""],
      [BaseLine EXCEPT !.quantity = "0"],
      [BaseLine EXCEPT !.quantity = "-5"],
      [BaseLine EXCEPT !.quantity = "abc"],
      [BaseLine EXCEPT !.unit_price = "0"],
      [BaseLine EXCEPT !.order_date = "not-a-date"],
      [BaseLine EXCEPT !.order_id = "O2", !.status = "Bogus"],
      [BaseLine EXCEPT !.order_id = "O2", !.total_amount = "0"],
      [c \in Columns |-> IF c = "order_id" THEN "O1" ELSE None] }

\* The header rows: the nine columns, or the nine but one.
Headers == {Columns} \cup {Columns \ {c} : c \in Columns}

\* The dict DictReader yields for a line under a header.
DictRow(h, line) == [c \in h |-> line[c]]

\* row.get(col, default)
Get(row, col, default) == IF col \in DOMAIN row THEN row[col] ELSE default

\* str.strip()
Strip(s) ==
    CASE s = " O1 " -> "O1"
      [] s = "   " -> ""
      [] OTHER -> s

\* str.lower()
Lower(s) ==
    CASE s = "Pending" -> "pending"
      [] s = "Bogus" -> "bogus"
      [] OTHER -> s

IntLiterals == {"1", "2", "0", "-5"}

\* int(s) for s in IntLiterals
IntOf(s) ==
    CASE s = "1" -> 1
      [] s = "2" -> 2
      [] s = "0" -> 0
      [] s = "-5" -> -5

FloatLiterals == {"9.99", "19.98", "0"}

\* float(s) for s in FloatLiterals, in hundredths
FloatOf(s) ==
    CASE s = "9.99" -> 999
      [] s = "19.98" -> 1998
      [] s = "0" -> 0

IsoDates == {"2024-01-15"}

\* datetime.fromisoformat(s) for s in IsoDates, as yyyymmdd
DateOf(s) ==
    CASE s = "2024-01-15" -> 20240115


\* ------------------------------------------------------------- row parser

\* The exception the construction of order_data raises, "" when it raises none.
\* The entries of the dict literal are evaluated in order; the first that raises
\* decides.  None.strip() raises AttributeError, int(None) and float(None)
\* TypeError, a malformed literal ValueError.  int(0) = int("0") and
\* float(0) = float("0"): the numeric defaults are written as the token "0".
FieldError(row) ==
    LET text(c) == Get(row, c, "")
        num(c) == Get(row, c, "0")
    IN  CASE text("order_id") = None -> "AttributeError"
          [] text("customer_email") = None -> "AttributeError"
          [] text("customer_name") = None -> "AttributeError"
          [] text("product_name") = None -> "AttributeError"
          [] num("quantity") = None -> "TypeError"
          [] num("quantity") \notin IntLiterals -> "ValueError: invalid literal for int()"
          [] num("unit_price") = None -> "TypeError"
          [] num("unit_price") \notin FloatLiterals -> "ValueError: could not convert string to float"
          [] num("total_amount") = None -> "TypeError"
          [] num("total_amount") \notin FloatLiterals -> "ValueError: could not convert string to float"
          [] text("status") = None -> "AttributeError"
          [] text("order_date") = None -> "AttributeError"
          [] Strip(text("order_date")) \notin IsoDates -> "ValueError: Invalid isoformat string"
          [] OTHER -> ""

\* order_data, for a row whose fields all parse.
OrderData(row) ==
    [order_id |-> Strip(Get(row, "order_id", "")),
     customer_email |-> Strip(Get(row, "customer_email", "")),
     customer_name |-> Strip(Get(row, "customer_name", "")),
     product_name |-> Strip(Get(row, "product_name", "")),
     quantity |-> IntOf(Get(row, "quantity", "0")),
     unit_price |-> FloatOf(Get(row, "unit_price", "0")),
     total_amount |-> FloatOf(Get(row, "total_amount", "0")),
     status |-> Lower(Strip(Get(row, "status", ""))),
     order_date |-> DateOf(Strip(Get(row, "order_date", "")))]

\* Validate without the check of quantity.
ValidateNoQuantity(d) ==
    CASE d.order_id = "" -> "ValueError: order_id is required"
      [] d.customer_email = "" -> "ValueError: customer_email is required"
      [] d.unit_price <= 0 -> "ValueError: unit_price must be positive"
      [] OTHER -> ""

\* Validate with the check of quantity first.
ValidateQuantityFirst(d) ==
    CASE d.quantity <= 0 -> "ValueError: quantity must be positive"
      [] d.order_id = "" -> "ValueError: order_id is required"
      [] d.customer_email = "" -> "ValueError: customer_email is required"
      [] d.unit_price <= 0 -> "ValueError: unit_price must be positive"
      [] OTHER -> ""

\* "Basic validation": the ValueError raised for order_data, "" when none is.
Validate(d) ==
    CASE d.order_id = "" -> "ValueError: order_id is required"
      [] d.customer_email = "" -> "ValueError: customer_email is required"
      [] d.quantity <= 0 -> "ValueError: quantity must be positive"
      [] d.unit_price <= 0 -> "ValueError: unit_price must be positive"
      [] OTHER -> ""

\* What the inner try block raises for a row before batch.append, "" when the
\* row is appended.
RowError(row) ==
    IF FieldError(row) # "" THEN FieldError(row) ELSE Validate(OrderData(row))

ValueErrors ==
    {"ValueError: invalid literal for int()",
     "ValueError: could not convert string to float",
     "ValueError: Invalid isoformat string",
     "ValueError: order_id is required",
     "ValueError: customer_email is required",
     "ValueError: quantity must be positive",
     "ValueError: unit_price must be positive"}

\* The entry the two except clauses of the row append to errors.
RowErrorEntry(row_num, exc) ==
    IF exc \in ValueErrors
    THEN [row |-> row_num, text |-> exc]
    ELSE [row |-> row_num, text |-> "Unexpected error - " \o exc]

\* A row entry appended by `if len(errors) < 100: errors.append(...)`, with the
\* bound inclusive.
AppendRowErrorOffByOne(errs, entry) ==
    IF Len(errs) <= MAX_ERRORS THEN Append(errs, entry) ELSE errs

\* if len(errors) < 100: errors.append(entry)
AppendRowError(errs, entry) ==
    IF Len(errs) < MAX_ERRORS THEN Append(errs, entry) ELSE errs

\* The row number of enumerate(csv_reader, start=1).
RowNumFromOne(n) == 1 + n

\* row_num of the row read after n rows: enumerate(csv_reader, start=2).
RowNum(n) == FIRST_ROW_NUM + n

\* ------------------------------------------------------ batch accumulator

\* ShouldFlush with a strict comparison.
ShouldFlushLate(b) == Len(b) > BATCH_SIZE

\* if len(batch) >= BATCH_SIZE
ShouldFlush(b) == Len(b) >= BATCH_SIZE

\* DictPut keeping the first value of a key.
DictPutKeepFirst(d, item) ==
    IF \E i \in 1..Len(d) : d[i].order_id = item.order_id THEN d ELSE Append(d, item)

\* One assignment d[item['order_id']] = item of the dict comprehension: a key
\* keeps the position of its first assignment and takes the last value.
DictPut(d, item) ==
    IF \E i \in 1..Len(d) : d[i].order_id = item.order_id
    THEN [i \in 1..Len(d) |-> IF d[i].order_id = item.order_id THEN item ELSE d[i]]
    ELSE Append(d, item)

RECURSIVE DictFrom(_, _)
DictFrom(d, b) == IF b = <<>> THEN d ELSE DictFrom(DictPut(d, Head(b)), Tail(b))

\* dedup_batch = list({item['order_id']: item for item in batch}.values())
DedupBatch(b) == DictFrom(<<>>, b)

\* ----------------------------------------------------------------- store

MutableColumns ==
    {"customer_email", "customer_name", "product_name", "quantity", "unit_price",
     "total_amount", "status", "order_date"}

\* update_cols without the column status.
UpdateColsWithoutStatus == MutableColumns \ {"status"}

\* The columns ON CONFLICT DO UPDATE sets from the proposed row.
UpdateCols == MutableColumns

\* The row of the table for a proposed record that meets no conflict: id from
\* the sequence, created_at and updated_at from server_default=func.now().
InsertedRow(rec, id, t) ==
    [order_id |-> rec.order_id, customer_email |-> rec.customer_email,
     customer_name |-> rec.customer_name, product_name |-> rec.product_name,
     quantity |-> rec.quantity, unit_price |-> rec.unit_price,
     total_amount |-> rec.total_amount, status |-> rec.status,
     order_date |-> rec.order_date, id |-> id, created_at |-> t, updated_at |-> t]

\* UpdatedRow that also takes created_at from now().
UpdatedRowResetsCreated(old, rec, t) ==
    [c \in DOMAIN old |->
        IF c \in MutableColumns THEN rec[c]
        ELSE IF c \in {"updated_at", "created_at"} THEN t
        ELSE old[c]]

\* UpdatedRow without updated_at = now().
UpdatedRowStaleTimestamp(old, rec, t) ==
    [c \in DOMAIN old |-> IF c \in MutableColumns THEN rec[c] ELSE old[c]]

\* The row of the table after DO UPDATE SET <update_cols>, updated_at = now().
UpdatedRow(old, rec, t) ==
    [c \in DOMAIN old |->
        IF c \in UpdateCols THEN rec[c]
        ELSE IF c = "updated_at" THEN t
        ELSE old[c]]

\* UpsertOne as ON CONFLICT DO NOTHING.
UpsertOneDoNothing(table, rec, id, t) ==
    IF \E r \in table : r.order_id = rec.order_id
    THEN table
    ELSE table \cup {InsertedRow(rec, id, t)}

\* UpsertOne that also refreshes updated_at of the rows it does not conflict with.
UpsertOneTouchesAll(table, rec, id, t) ==
    IF \E r \in table : r.order_id = rec.order_id
    THEN {IF r.order_id = rec.order_id THEN UpdatedRow(r, rec, t)
          ELSE [r EXCEPT !.updated_at = t] : r \in table}
    ELSE {[r EXCEPT !.updated_at = t] : r \in table} \cup {InsertedRow(rec, id, t)}

\* INSERT ... ON CONFLICT (order_id) DO UPDATE of one proposed record.
UpsertOne(table, rec, id, t) ==
    IF \E r \in table : r.order_id = rec.order_id
    THEN {IF r.order_id = rec.order_id THEN UpdatedRow(r, rec, t) ELSE r : r \in table}
    ELSE table \cup {InsertedRow(rec, id, t)}

RECURSIVE Upsert(_, _, _, _)
\* The statement over its VALUES list; ids are drawn in the order of the list.
Upsert(table, recs, id, t) ==
    IF recs = <<>> THEN table
    ELSE LET rec == Head(recs)
             fresh == ~ \E r \in table : r.order_id = rec.order_id
         IN  Upsert(UpsertOne(table, rec, id, t), Tail(recs),
                    IF fresh THEN id + 1 ELSE id, t)

\* PostgreSQL refuses a statement whose VALUES propose one key twice ("ON
\* CONFLICT DO UPDATE command cannot affect row a second time").
StatementValid(recs) ==
    \A i, j \in 1..Len(recs) : recs[i].order_id = recs[j].order_id => i = j

KeysOf(table) == {r.order_id : r \in table}

\* ------------------------------------------------------------------ state

VARIABLES
    phase,              \* "idle", "parsing", "completed", "refused" (400, 401, 403),
                        \* "failed" (500), "read" (a read request was answered)
    header,             \* the columns of the header row of the uploaded files
    rows,               \* the lines read from the file so far, as DictReader yields them
    records_processed,
    records_created,
    records_failed,
    errors,
    batch,
    store,              \* the rows of the orders table
    now,                \* the store's clock at its last transaction
    nextId,             \* the next value of the sequence of orders.id
    attempts,           \* the upsert statements this run has executed, in order
    uploads,            \* requests made so far
    replay,             \* whether this request uploads the previous file again
    fresh,              \* lines read from new files so far
    prev,               \* at a repeated upload: what the previous run left
    request,            \* the last request: its endpoint, bearer credential and file
    response,           \* the response of the request
    other               \* the locals of a run of another worker, on the same table

vars ==
    <<phase, header, rows, records_processed, records_created, records_failed, errors,
      batch, store, now, nextId, attempts, uploads, replay, fresh, prev, request,
      response, other>>

NoResponse == [status |-> 0]

\* The other worker before its request.
NoOther ==
    [phase |-> "idle", rows |-> <<>>, records_processed |-> 0, records_created |-> 0,
     records_failed |-> 0, errors |-> <<>>, batch |-> <<>>, attempts |-> <<>>,
     response |-> NoResponse]

NoRequest == [endpoint |-> "", credential |-> "", filename |-> "", size |-> 0,
              decodes |-> FALSE]

NoPrev == [rows |-> <<>>, store |-> {}, created |-> 0, rejected |-> FALSE]

\* The state before the first request, for files with the header row h.
InitWith(h) ==
    /\ phase = "idle"
    /\ header = h
    /\ rows = <<>>
    /\ records_processed = 0
    /\ records_created = 0
    /\ records_failed = 0
    /\ errors = <<>>
    /\ batch = <<>>
    /\ store = {}
    /\ now = 0
    /\ nextId = 1
    /\ attempts = <<>>
    /\ uploads = 0
    /\ replay = FALSE
    /\ fresh = 0
    /\ prev = NoPrev
    /\ request = NoRequest
    /\ response = NoResponse
    /\ other = NoOther

\* ------------------------------------------------------------------ flush

\* CreatedCount over the batch before deduplication.
CreatedCountUndeduplicated(b) == Len(b)

\* CreatedCount over the records the statement inserts, those it updates left out.
CreatedCountInsertsOnly(b) ==
    Cardinality({b[i].order_id : i \in 1..Len(b)} \ KeysOf(store))

\* records_created += len(dedup_batch)
CreatedCount(b) == Len(DedupBatch(b))

\* FailedCount over the deduplicated batch.
FailedCountDeduplicated(b) == Len(DedupBatch(b))

\* records_failed += len(batch)
FailedCount(b) == Len(b)

\* BatchErrorEntries under the cap of the row entries.
BatchErrorEntriesCapped(label) ==
    IF Len(errors) < MAX_ERRORS THEN <<[row |-> 0, text |-> label]>> ELSE <<>>

\* What errors.append(f"... insert failed: ...") adds to errors.
BatchErrorEntries(label) == <<[row |-> 0, text |-> label]>>

\* db.rollback() that also loses the batches committed before.
RolledBackAll(table) == {}

\* The table after db.rollback(): what was committed.
RolledBack(table) == table

\* The try/except around one upsert statement, for the accumulated batch b:
\* what it adds to the counters and to errors, and what it leaves in the store.
\* The statement runs in a transaction of its own, later than every earlier
\* one; `accept` is whether the store executes and commits it.
Flush(b, accept, label) ==
    LET dedup == DedupBatch(b)
        t == now + 1
        ok == accept /\ StatementValid(dedup)
    IN  [ok |-> ok,
         store |-> IF ok THEN Upsert(store, dedup, nextId, t) ELSE RolledBack(store),
         nextId |-> IF ok
                    THEN nextId + Cardinality({r.order_id : r \in {dedup[i] : i \in 1..Len(dedup)}}
                                              \ KeysOf(store))
                    ELSE nextId,
         now |-> t,
         created |-> IF ok THEN CreatedCount(b) ELSE 0,
         failed |-> IF ok THEN 0 ELSE FailedCount(b),
         errors |-> IF ok THEN <<>> ELSE BatchErrorEntries(label),
         attempt |-> [batch |-> b, recs |-> dedup, ok |-> ok, at |-> t]]

\* ----------------------------------------------------------- authorization

\* The bearer credentials of a request: a token that jwt.decode refuses, or a
\* verified token with the role of one of USERS_DB.
Credentials == {"invalid", "viewer", "admin"}

\* The status of the answer to a token that jwt.decode refuses: 401 from the
\* handlers of verify_token, or 500 where the installed jwt module has no
\* attribute JWTError and the lookup in the except clause raises.
InvalidTokenStatus == {401, 500}

\* verify_token: the role of the payload, or "" for a refused token.
verify_token(credential) == IF credential = "invalid" THEN "" ELSE credential

\* require_role without the comparison of the role.
require_role_unchecked(required_role, credential, s) ==
    IF verify_token(credential) = "" THEN s ELSE 0

\* require_role(required_role): the status of the HTTPException raised, or 0
\* when the dependency returns current_user; s is the status for a refused token.
require_role(required_role, credential, s) ==
    IF verify_token(credential) = "" THEN s
    ELSE IF verify_token(credential) # required_role THEN 403
    ELSE 0

\* The detail of the answer to a request the dependencies refuse.
AuthDetail(status) ==
    CASE status = 403 -> "Insufficient permissions. Required role: admin"
      [] status = 401 -> "Could not validate credentials"
      [] OTHER -> "Internal Server Error"

\* Depends(get_admin_user) of upload_orders_csv.
get_admin_user(credential, s) == require_role("admin", credential, s)

\* Depends(get_current_user) of the read endpoints.
get_current_user(credential, s) == IF verify_token(credential) = "" THEN s ELSE 0

\* The values of the field errors of UploadResponse, Optional[List[str]]: None,
\* or a list.
NoErrors == [none |-> TRUE]

ErrorList(errs) == [list |-> errs]

\* ReportErrors that reports an empty list as it is.
ReportErrorsEmptyList(errs) == ErrorList(errs)

\* errors=errors if errors else None
ReportErrors(errs) == IF errs # <<>> THEN ErrorList(errs) ELSE NoErrors

\* ---------------------------------------------------------------- actions

ResetRun ==
    /\ rows' = <<>>
    /\ records_processed' = 0
    /\ records_created' = 0
    /\ records_failed' = 0
    /\ errors' = <<>>
    /\ batch' = <<>>
    /\ attempts' = <<>>

\* PayloadError with the size bound inclusive.
PayloadErrorSizeInclusive(filename, size, decodes) ==
    CASE filename # "csv" -> "File must be a CSV"
      [] size >= MAX_FILE_SIZE -> "Error reading file: 400: File size exceeds maximum allowed size"
      [] ~decodes -> "Invalid file encoding. Please use UTF-8"
      [] OTHER -> ""

\* The checks before the loop: the file name, the size, the decoding. The
\* HTTPException of the size check is raised inside the try block and leaves
\* it through `except Exception`, which raises a 400 of its own.
PayloadError(filename, size, decodes) ==
    CASE filename # "csv" -> "File must be a CSV"
      [] size > MAX_FILE_SIZE -> "Error reading file: 400: File size exceeds maximum allowed size"
      [] ~decodes -> "Invalid file encoding. Please use UTF-8"
      [] OTHER -> ""

\* A request with a new file: the dependency get_admin_user, the payload checks,
\* then the counters are set up.
StartUpload(credential, s, filename, size, decodes) ==
    /\ phase # "parsing"
    /\ uploads < MaxUploads
    /\ uploads' = uploads + 1
    /\ replay' = FALSE
    /\ prev' = NoPrev
    /\ request' = [endpoint |-> "upload", credential |-> credential,
                   filename |-> filename, size |-> size, decodes |-> decodes]
    /\ ResetRun
    /\ IF get_admin_user(credential, s) # 0
       THEN /\ phase' = "refused"
            /\ response' = [status |-> get_admin_user(credential, s),
                            detail |-> AuthDetail(get_admin_user(credential, s))]
       ELSE IF PayloadError(filename, size, decodes) # ""
       THEN /\ phase' = "refused"
            /\ response' = [status |-> 400, detail |-> PayloadError(filename, size, decodes)]
       ELSE /\ phase' = "parsing"
            /\ response' = NoResponse
    /\ UNCHANGED <<header, store, now, nextId, fresh, other>>

\* A request that uploads the file of the run just completed once more.
Reupload ==
    /\ phase = "completed"
    /\ uploads < MaxUploads
    /\ uploads' = uploads + 1
    /\ replay' = TRUE
    /\ prev' = [rows |-> rows, store |-> store, created |-> records_created,
                rejected |-> \E i \in 1..Len(attempts) : ~attempts[i].ok]
    /\ ResetRun
    /\ phase' = "parsing"
    /\ response' = NoResponse
    /\ UNCHANGED <<header, store, now, nextId, fresh, request, other>>

\* A request to a read endpoint, here get_order_stats: the dependency
\* get_current_user, then the count of the table.
GetOrderStats(credential, s) ==
    /\ phase # "parsing"
    /\ uploads < MaxUploads
    /\ uploads' = uploads + 1
    /\ replay' = FALSE
    /\ prev' = NoPrev
    /\ request' = [NoRequest EXCEPT !.endpoint = "stats", !.credential = credential]
    /\ ResetRun
    /\ phase' = "read"
    /\ response' = IF get_current_user(credential, s) # 0
                   THEN [status |-> get_current_user(credential, s),
                         detail |-> AuthDetail(get_current_user(credential, s))]
                   ELSE [status |-> 200, total_orders |-> Cardinality(store)]
    /\ UNCHANGED <<header, store, now, nextId, fresh, other>>

\* The lines the reader may yield next.
NextLines ==
    IF replay
    THEN IF Len(rows) < Len(prev.rows) THEN {prev.rows[Len(rows) + 1]} ELSE {}
    ELSE IF fresh < MaxRows THEN {DictRow(header, l) : l \in Lines} ELSE {}

AtEnd == IF replay THEN Len(rows) = Len(prev.rows) ELSE TRUE

\* The body of the loop over csv_reader, for the row the reader yields.
LoopBody(row, accept) ==
    /\ phase = "parsing"
    /\ rows' = Append(rows, row)
    /\ fresh' = IF replay THEN fresh ELSE fresh + 1
    /\ records_processed' = records_processed + 1
    /\ LET row_num == RowNum(Len(rows))
           exc == RowError(row)
           b == Append(batch, OrderData(row))
           f == Flush(b, accept, "Batch insert failed")
       IN  IF exc # ""
           THEN /\ records_failed' = records_failed + 1
                /\ errors' = AppendRowError(errors, RowErrorEntry(row_num, exc))
                /\ UNCHANGED <<batch, store, now, nextId, attempts, records_created>>
           ELSE IF ShouldFlush(b)
           THEN /\ store' = f.store
                /\ now' = f.now
                /\ nextId' = f.nextId
                /\ records_created' = records_created + f.created
                /\ records_failed' = records_failed + f.failed
                /\ errors' = errors \o f.errors
                /\ attempts' = Append(attempts, f.attempt)
                /\ batch' = <<>>
           ELSE /\ batch' = b
                /\ UNCHANGED <<store, now, nextId, attempts, records_created,
                               records_failed, errors>>
    /\ UNCHANGED <<phase, header, uploads, replay, prev, request, response, other>>

\* One iteration of the loop over csv_reader.
ReadRow(row, accept) ==
    /\ row \in NextLines
    /\ LoopBody(row, accept)

\* next(csv_reader) raises csv.Error: the exception leaves the loop, the outer
\* handler rolls back and answers 500.
ReaderError ==
    /\ phase = "parsing"
    /\ ~replay
    /\ fresh < MaxRows
    /\ rows' = Append(rows, BadLine)
    /\ fresh' = fresh + 1
    /\ phase' = "failed"
    /\ store' = RolledBack(store)
    /\ response' = [status |-> 500, detail |-> "Error processing CSV"]
    /\ UNCHANGED <<header, records_processed, records_created, records_failed, errors,
                   batch, now, nextId, attempts, uploads, replay, prev, request, other>>

\* The end of the file: the remaining batch is flushed and the report returned.
EndOfStream(accept) ==
    /\ phase = "parsing"
    /\ AtEnd
    /\ LET f == Flush(batch, accept, "Final batch insert failed")
           created == IF batch # <<>> THEN records_created + f.created ELSE records_created
           failed == IF batch # <<>> THEN records_failed + f.failed ELSE records_failed
           errs == IF batch # <<>> THEN errors \o f.errors ELSE errors
       IN  /\ IF batch # <<>>
              THEN /\ store' = f.store
                   /\ now' = f.now
                   /\ nextId' = f.nextId
                   /\ attempts' = Append(attempts, f.attempt)
              ELSE UNCHANGED <<store, now, nextId, attempts>>
           /\ records_created' = created
           /\ records_failed' = failed
           /\ errors' = errs
           /\ response' = [status |-> 200,
                           message |-> "CSV processing completed",
                           records_processed |-> records_processed,
                           records_created |-> created,
                           records_failed |-> failed,
                           errors |-> ReportErrors(errs)]
    /\ phase' = "completed"
    /\ UNCHANGED <<header, rows, records_processed, batch, uploads, replay, fresh, prev,
                   request, other>>

\* The files of the upload requests: one that passes the three checks with a
\* payload of exactly MAX_FILE_SIZE, one per check that fails it alone, and one
\* that fails all three.
Payloads ==
    { [filename |-> "csv", size |-> MAX_FILE_SIZE, decodes |-> TRUE],
      [filename |-> "txt", size |-> MAX_FILE_SIZE, decodes |-> TRUE],
      [filename |-> "csv", size |-> MAX_FILE_SIZE + 1, decodes |-> TRUE],
      [filename |-> "csv", size |-> MAX_FILE_SIZE, decodes |-> FALSE],
      [filename |-> "txt", size |-> MAX_FILE_SIZE + 1, decodes |-> FALSE] }

\* The upload requests: an admin's with each file, and the file that passes the
\* checks sent with each other credential.
UploadRequests ==
    { [credential |-> c, filename |-> f.filename, size |-> f.size, decodes |-> f.decodes] :
        c \in {"admin"}, f \in Payloads }
    \cup
    { [credential |-> c, filename |-> "csv", size |-> MAX_FILE_SIZE, decodes |-> TRUE] :
        c \in Credentials \ {"admin"} }

\* The statuses the dependencies may answer a refused token with; the choice
\* is void for a verified one.
TokenStatus(credential) ==
    IF verify_token(credential) = "" THEN InvalidTokenStatus ELSE {401}

Next ==
    \/ \E r \in UploadRequests : \E s \in TokenStatus(r.credential) :
            StartUpload(r.credential, s, r.filename, r.size, r.decodes)
    \/ Reupload
    \/ \E credential \in Credentials : \E s \in TokenStatus(credential) :
            GetOrderStats(credential, s)
    \/ \E row \in NextLines, accept \in BOOLEAN : ReadRow(row, accept)
    \/ ReaderError
    \/ \E accept \in BOOLEAN : EndOfStream(accept)

\* Files that carry the nine columns of the contract.
Init == InitWith(Columns)

Spec == Init /\ [][Next]_vars

\* ------------------------------------------------------ rows field by field

\* The lines made of every combination of a good and the bad values of the four
\* validated columns, and of a quantity that does not parse.
FieldLines ==
    { [BaseLine EXCEPT !.order_id = o, !.customer_email = e, !.quantity = q,
                       !.unit_price = u] :
        o \in {"O1", "   "}, e \in {"ann@example.com", ""},
        q \in {"1", "0", "-5", "abc"}, u \in {"9.99", "0"} }

\* One iteration of the loop on a line of FieldLines.
ReadFieldRow(row, accept) ==
    /\ ~replay
    /\ fresh < MaxRows
    /\ LoopBody(row, accept)

\* An admin's uploads of files made of FieldLines.
NextRows ==
    \/ \E r \in UploadRequests : \E s \in TokenStatus(r.credential) :
            StartUpload(r.credential, s, r.filename, r.size, r.decodes)
    \/ \E l \in FieldLines, accept \in BOOLEAN : ReadFieldRow(DictRow(header, l), accept)
    \/ \E accept \in BOOLEAN : EndOfStream(accept)

SpecRows == Init /\ [][NextRows]_vars

\* Files whose header row may lack one column.
InitAnyHeader == \E h \in Headers : InitWith(h)

SpecAnyHeader == InitAnyHeader /\ [][Next]_vars

\* ------------------------------------------------------- a concurrent run

\* The lines of the file of the other worker: the order ids of Lines with other
\* values in the mutable columns, and a malformed row.
OtherLines ==
    { [BaseLine EXCEPT !.customer_name = "Bob", !.product_name = "Gadget",
                       !.quantity = "2", !.total_amount = "19.98", !.status = "cancelled"],
      [BaseLine EXCEPT !.order_id = "O2", !.customer_name = "Bob",
                       !.product_name = "Gadget", !.status = "cancelled"],
      [BaseLine EXCEPT !.quantity = "0"] }

\* The variables of the first worker's run and of the requests.
runVars ==
    <<phase, header, rows, records_processed, records_created, records_failed, errors,
      batch, attempts, replay, prev, request, response>>

\* An admin's upload that another worker starts handling while the run of the
\* first is parsing.
OtherStart ==
    /\ phase = "parsing"
    /\ other.phase = "idle"
    /\ uploads < MaxUploads
    /\ uploads' = uploads + 1
    /\ other' = [other EXCEPT !.phase = "parsing"]
    /\ UNCHANGED <<runVars, store, now, nextId, fresh>>

\* One iteration of the loop of the other worker. A statement waits for the row
\* locks of the transactions in progress and commits before any later statement
\* touches its rows, so it takes effect in one step; a deadlock between two
\* statements is a rejection.
OtherReadRow(row, accept) ==
    /\ other.phase = "parsing"
    /\ fresh < MaxRows
    /\ fresh' = fresh + 1
    /\ LET row_num == RowNum(Len(other.rows))
           exc == RowError(row)
           b == Append(other.batch, OrderData(row))
           f == Flush(b, accept, "Batch insert failed")
           read == [other EXCEPT !.rows = Append(@, row), !.records_processed = @ + 1]
       IN  IF exc # ""
           THEN /\ other' = [read EXCEPT
                                !.records_failed = @ + 1,
                                !.errors = AppendRowError(@, RowErrorEntry(row_num, exc))]
                /\ UNCHANGED <<store, now, nextId>>
           ELSE IF ShouldFlush(b)
           THEN /\ store' = f.store
                /\ now' = f.now
                /\ nextId' = f.nextId
                /\ other' = [read EXCEPT
                                !.records_created = @ + f.created,
                                !.records_failed = @ + f.failed,
                                !.errors = @ \o f.errors,
                                !.attempts = Append(@, f.attempt),
                                !.batch = <<>>]
           ELSE /\ other' = [read EXCEPT !.batch = b]
                /\ UNCHANGED <<store, now, nextId>>
    /\ UNCHANGED <<runVars, uploads>>

\* next(csv_reader) raises csv.Error in the other worker.
OtherReaderError ==
    /\ other.phase = "parsing"
    /\ fresh < MaxRows
    /\ fresh' = fresh + 1
    /\ other' = [other EXCEPT
                    !.rows = Append(@, BadLine),
                    !.phase = "failed",
                    !.response = [status |-> 500, detail |-> "Error processing CSV"]]
    /\ store' = RolledBack(store)
    /\ UNCHANGED <<runVars, now, nextId, uploads>>

\* The end of the file of the other worker.
OtherEndOfStream(accept) ==
    /\ other.phase = "parsing"
    /\ LET f == Flush(other.batch, accept, "Final batch insert failed")
           flushed == IF other.batch # <<>>
                      THEN [other EXCEPT
                              !.records_created = @ + f.created,
                              !.records_failed = @ + f.failed,
                              !.errors = @ \o f.errors,
                              !.attempts = Append(@, f.attempt)]
                      ELSE other
       IN  /\ IF other.batch # <<>>
              THEN /\ store' = f.store
                   /\ now' = f.now
                   /\ nextId' = f.nextId
              ELSE UNCHANGED <<store, now, nextId>>
           /\ other' = [flushed EXCEPT
                          !.phase = "completed",
                          !.response =
                              [status |-> 200,
                               message |-> "CSV processing completed",
                               records_processed |-> flushed.records_processed,
                               records_created |-> flushed.records_created,
                               records_failed |-> flushed.records_failed,
                               errors |-> ReportErrors(flushed.errors)]]
    /\ UNCHANGED <<runVars, uploads, fresh>>

NextConcurrent ==
    \/ Next
    \/ OtherStart
    \/ \E l \in OtherLines, accept \in BOOLEAN : OtherReadRow(DictRow(header, l), accept)
    \/ OtherReaderError
    \/ \E accept \in BOOLEAN : OtherEndOfStream(accept)

\* Two workers on one table.
SpecConcurrent == Init /\ [][NextConcurrent]_vars

\* ------------------------------------------------- vocabulary of the claims

\* allowed_status of OrderBase.validate_status
AllowedStatus == {"pending", "processing", "shipped", "delivered", "cancelled"}

\* A line the loop body appended to the batch.
ValidRow(row) == row # BadLine /\ RowError(row) = ""

AllRowsValid == \A i \in 1..Len(rows) : ValidRow(rows[i])

\* The store rejected a statement of this run.
Rejected == \E i \in 1..Len(attempts) : ~attempts[i].ok

LastAttempt == attempts[Len(attempts)]

RowsOf(table, k) == {r \in table : r.order_id = k}

SameMutable(r, d) == \A c \in MutableColumns : r[c] = d[c]

\* Rows of the batch b that a later row of b with the same order_id supersedes.
SupersededIn(b) == Len(b) - Cardinality({b[i].order_id : i \in 1..Len(b)})

RECURSIVE SupersededCommitted(_)
SupersededCommitted(as) ==
    IF as = <<>> THEN 0
    ELSE (IF Head(as).ok THEN SupersededIn(Head(as).batch) ELSE 0)
         + SupersededCommitted(Tail(as))

\* The step is an upsert statement of the run.
StatementStep == Len(attempts') = Len(attempts) + 1

\* The step reads one well-formed line.
RowStep == phase = "parsing" /\ Len(rows') = Len(rows) + 1 /\ rows'[Len(rows')] # BadLine

\* -------------------------------------------------------------------- C1

\* C1 as stated: at completion of a run whose rows are all valid, records_processed
\* = records_created + records_failed, duplicates inside a batch included.
C1_ProcessedIsCreatedPlusFailed ==
    (phase = "completed" /\ AllRowsValid)
        => response.records_processed
             = response.records_created + response.records_failed

\* C1 amended: at completion of a run whose rows are all valid, records_processed
\* = records_created + records_failed + the number of rows superseded by a later
\* row with the same order_id inside a committed batch.
C1_ProcessedCountsSuperseded ==
    (phase = "completed" /\ AllRowsValid)
        => response.records_processed
             = response.records_created + response.records_failed
               + SupersededCommitted(attempts)

\* A completed run of valid rows with a committed batch holding a duplicate
\* order_id and a rejected batch.
C1_Witness ==
    /\ phase = "completed"
    /\ AllRowsValid
    /\ Rejected
    /\ SupersededCommitted(attempts) > 0

\* -------------------------------------------------------------------- C2

\* C2: after a committed batch holding an order_id in two or more rows, the store
\* holds exactly one record with that order_id, and its mutable fields are those
\* of the last such row of the batch.
C2_LastInBatchWins ==
    (attempts # <<>> /\ LastAttempt.ok) =>
        LET b == LastAttempt.batch
        IN  \A i, j \in 1..Len(b) :
                (i < j /\ b[i].order_id = b[j].order_id
                 /\ ~ \E m \in (j + 1)..Len(b) : b[m].order_id = b[j].order_id)
                => /\ Cardinality(RowsOf(store, b[j].order_id)) = 1
                   /\ \A r \in RowsOf(store, b[j].order_id) : SameMutable(r, b[j])

\* A committed batch with two rows of one order_id that differ in status.
C2_Witness ==
    /\ attempts # <<>>
    /\ LastAttempt.ok
    /\ \E i, j \in 1..Len(LastAttempt.batch) :
          /\ i < j
          /\ LastAttempt.batch[i].order_id = LastAttempt.batch[j].order_id
          /\ LastAttempt.batch[i].status # LastAttempt.batch[j].status

\* -------------------------------------------------------------------- C3

\* C3: after a run without a rejected batch, for every order_id of a valid row the
\* store holds one record, equal in its mutable fields to the last valid row of
\* the file with that order_id, whichever batches the rows fell into.
C3_LastInFileWins ==
    (phase = "completed" /\ ~Rejected) =>
        \A j \in 1..Len(rows) :
            (ValidRow(rows[j])
             /\ ~ \E m \in (j + 1)..Len(rows) :
                    ValidRow(rows[m])
                    /\ OrderData(rows[m]).order_id = OrderData(rows[j]).order_id)
            => /\ Cardinality(RowsOf(store, OrderData(rows[j]).order_id)) = 1
               /\ \A r \in RowsOf(store, OrderData(rows[j]).order_id) :
                      SameMutable(r, OrderData(rows[j]))

\* A completed run of two committed batches that both carry one order_id, with
\* different status.
C3_Witness ==
    /\ phase = "completed"
    /\ ~Rejected
    /\ Len(attempts) = 2
    /\ \E i \in 1..Len(attempts[1].batch), j \in 1..Len(attempts[2].batch) :
          /\ attempts[1].batch[i].order_id = attempts[2].batch[j].order_id
          /\ attempts[1].batch[i].status # attempts[2].batch[j].status

\* -------------------------------------------------------------------- C4

\* A row the claim calls invalid: empty order_id, empty customer_email, quantity
\* or unit_price not positive, an unparseable number or date.
BadNumber(v, literals) == v # None /\ v \notin literals

ListedInvalid(row) ==
    \/ Strip(Get(row, "order_id", "")) = ""
    \/ Strip(Get(row, "customer_email", "")) = ""
    \/ BadNumber(Get(row, "quantity", "0"), IntLiterals)
    \/ BadNumber(Get(row, "unit_price", "0"), FloatLiterals)
    \/ BadNumber(Get(row, "total_amount", "0"), FloatLiterals)
    \/ Get(row, "quantity", "0") \in {"0", "-5"}
    \/ Get(row, "unit_price", "0") = "0"
    \/ Get(row, "order_date", "") \in {"", "not-a-date"}

\* C4: the step that reads a row failing validation leaves the batch and the store
\* as they were, executes no statement, adds exactly 1 to records_failed and
\* nothing to records_created.
C4_InvalidRowNeverStored ==
    [][(RowStep /\ ListedInvalid(rows'[Len(rows')]))
        => /\ batch' = batch
           /\ store' = store
           /\ attempts' = attempts
           /\ records_failed' = records_failed + 1
           /\ records_created' = records_created]_vars

\* A completed run in which an invalid row was followed by a valid row with the
\* same order_id, which was stored.
C4_Witness ==
    /\ phase = "completed"
    /\ records_created > 0
    /\ \E i, j \in 1..Len(rows) :
          /\ i < j
          /\ rows[i] # BadLine /\ ListedInvalid(rows[i])
          /\ ValidRow(rows[j])
          /\ Strip(Get(rows[i], "order_id", "")) = OrderData(rows[j]).order_id

\* -------------------------------------------------------------------- C5

\* C5: every record in the store has a status of the enumeration.
C5_StoredStatusAllowed == \A r \in store : r.status \in AllowedStatus

\* -------------------------------------------------------------------- C6

\* C6: a file whose header lacks one of the nine columns completes with every
\* row failed, none created and no statement committed.
C6_MissingColumnFailsAll ==
    (phase = "completed" /\ header # Columns) =>
        /\ response.records_failed = response.records_processed
        /\ response.records_created = 0
        /\ \A i \in 1..Len(attempts) : ~attempts[i].ok

\* -------------------------------------------------------------------- C7

\* C7: no step changes id, order_id or created_at of a stored order, and the store
\* never holds two records of one order_id; a committed statement leaves, for each
\* of its records, the mutable columns at the incoming values and updated_at at
\* the time of the statement, and sets created_at to that time when the order_id
\* was not in the store.
C7_UpsertKeepsCreatedAt ==
    [][/\ \A r \in store :
              \E r2 \in store' :
                  r2.order_id = r.order_id /\ r2.id = r.id /\ r2.created_at = r.created_at
       /\ \A k \in KeysOf(store') : Cardinality(RowsOf(store', k)) = 1
       /\ (StatementStep /\ attempts'[Len(attempts')].ok)
          => \A i \in 1..Len(attempts'[Len(attempts')].recs) :
                LET rec == attempts'[Len(attempts')].recs[i]
                IN  \A r2 \in RowsOf(store', rec.order_id) :
                        /\ SameMutable(r2, rec)
                        /\ r2.updated_at = now'
                        /\ now' > now
                        /\ rec.order_id \notin KeysOf(store) => r2.created_at = now'
      ]_vars

\* Two stored orders, one of them updated by a statement later than the one that
\* inserted it.
C7_Witness ==
    /\ Cardinality(store) = 2
    /\ \E r \in store : r.updated_at > r.created_at

\* -------------------------------------------------------------------- C8

\* C8: when a file is uploaded twice in sequence and no batch is rejected in
\* either run, the second report has the records_created of the first, and
\* every order of the file has the created_at and the business fields it had
\* after the first run and a later updated_at.
C8_ReuploadIdempotent ==
    (phase = "completed" /\ replay /\ ~prev.rejected /\ ~Rejected) =>
        /\ rows = prev.rows
        /\ response.records_created = prev.created
        /\ \A j \in 1..Len(rows) :
              ValidRow(rows[j]) =>
                  LET k == OrderData(rows[j]).order_id
                  IN  /\ RowsOf(store, k) # {}
                      /\ \A r \in RowsOf(store, k) :
                            \E p \in RowsOf(prev.store, k) :
                                /\ r.created_at = p.created_at
                                /\ r.id = p.id
                                /\ SameMutable(r, p)
                                /\ r.updated_at > p.updated_at

\* A second upload of a file with two batches, completed without rejection.
C8_Witness ==
    /\ phase = "completed"
    /\ replay
    /\ ~prev.rejected
    /\ ~Rejected
    /\ Len(attempts) = 2
    /\ records_created > 1

\* -------------------------------------------------------------------- C9

\* The batch a statement step offers: the pending rows, with the row just read.
OfferedBatch ==
    IF Len(rows') > Len(rows) THEN Append(batch, OrderData(rows'[Len(rows')])) ELSE batch

\* C9: a rejected statement leaves the store and records_created as they were and
\* adds the number of rows accumulated in the batch to records_failed; after a
\* committed statement the last row of each order_id of the batch is in the store.
C9_BatchAtomic ==
    [][StatementStep =>
        IF attempts'[Len(attempts')].ok
        THEN \A j \in 1..Len(OfferedBatch) :
                (~ \E m \in (j + 1)..Len(OfferedBatch) :
                       OfferedBatch[m].order_id = OfferedBatch[j].order_id)
                => \E r \in store' :
                      r.order_id = OfferedBatch[j].order_id /\ SameMutable(r, OfferedBatch[j])
        ELSE /\ store' = store
             /\ records_created' = records_created
             /\ records_failed' = records_failed + Len(OfferedBatch)
      ]_vars

\* A run in which a batch holding a superseded row was rejected and another batch
\* was committed.
C9_Witness ==
    /\ \E i \in 1..Len(attempts) :
          ~attempts[i].ok /\ SupersededIn(attempts[i].batch) > 0
    /\ \E i \in 1..Len(attempts) : attempts[i].ok

\* ------------------------------------------------------------------- C10

\* C10: a run that passed the payload checks ends in Completed, with a report
\* whose records_processed is the number of data rows read.
C10_RunCompletes ==
    phase \in {"completed", "failed"} =>
        /\ phase = "completed"
        /\ response.status = 200
        /\ response.records_processed = Len(rows)

\* ------------------------------------------------------------------- C11

\* The entries of errors that report a row.
RowEntries == SelectSeq(errors, LAMBDA e : e.row # 0)

\* The entries of errors that report a rejected batch.
BatchEntries == SelectSeq(errors, LAMBDA e : e.row = 0)

\* The lines read so far that the loop body counted as failed.
InvalidRows == {i \in 1..Len(rows) : rows[i] # BadLine /\ RowError(rows[i]) # ""}

\* The number of rejected statements among as, and of the rows they carried.
RECURSIVE RejectedCount(_)
RejectedCount(as) ==
    IF as = <<>> THEN 0
    ELSE (IF Head(as).ok THEN 0 ELSE 1) + RejectedCount(Tail(as))

RECURSIVE RejectedRows(_)
RejectedRows(as) ==
    IF as = <<>> THEN 0
    ELSE (IF Head(as).ok THEN 0 ELSE Len(Head(as).batch)) + RejectedRows(Tail(as))

UploadRequestStep ==
    uploads' = uploads + 1 /\ request'.endpoint = "upload" /\ ~replay'

\* The payload of the request fails one of the checks before the loop.
PayloadFails(r) == r.filename # "csv" \/ r.size > MAX_FILE_SIZE \/ ~r.decodes

\* C12: an admin's upload whose file name does not end in .csv, whose payload is
\* larger than MAX_FILE_SIZE or does not decode is answered by one 400 without a
\* report, with no row read or counted, no statement sent and the store
\* unchanged, and the refused run never reads a row later; a payload of exactly
\* MAX_FILE_SIZE with a .csv name that decodes starts parsing.
C12_PayloadFailureRefused ==
    [][/\ (UploadRequestStep /\ request'.credential = "admin") =>
            IF PayloadFails(request')
            THEN /\ phase' = "refused"
                 /\ response'.status = 400
                 /\ DOMAIN response' = {"status", "detail"}
                 /\ store' = store
                 /\ now' = now
            ELSE phase' = "parsing"
       /\ phase' = "refused" =>
            /\ rows' = <<>>
            /\ records_processed' = 0
            /\ attempts' = <<>>
            /\ batch' = <<>>
      ]_vars

\* An oversized payload refused after an earlier run filled the store.
C12_Witness ==
    /\ phase = "refused"
    /\ request.credential = "admin"
    /\ request.filename = "csv"
    /\ request.decodes
    /\ request.size > MAX_FILE_SIZE
    /\ response.status = 400
    /\ store # {}

\* ------------------------------------------------------------------- C14

\* The step answers a request to the read endpoint.
ReadRequestStep == uploads' = uploads + 1 /\ request'.endpoint = "stats"

\* C14: a run is only ever parsing for a request whose verified credential has
\* role admin; an upload request with a verified credential of another role is
\* answered 403 with no row read and the store unchanged, and one without a
\* verified credential is refused too; the read endpoint answers 200 with the
\* count of the table to every verified credential, and changes nothing.
C14_OnlyAdminUploads ==
    [][/\ phase' = "parsing" => request'.credential = "admin"
       /\ (UploadRequestStep /\ request'.credential # "admin") =>
            /\ phase' = "refused"
            /\ response'.status # 200
            /\ verify_token(request'.credential) # "" => response'.status = 403
            /\ rows' = <<>>
            /\ records_processed' = 0
            /\ attempts' = <<>>
            /\ store' = store
       /\ ReadRequestStep =>
            /\ store' = store
            /\ verify_token(request'.credential) # "" =>
                  /\ response'.status = 200
                  /\ response'.total_orders = Cardinality(store)
      ]_vars

\* A viewer's upload answered 403 after an admin's run filled the store.
C14_Witness ==
    /\ phase = "refused"
    /\ request.endpoint = "upload"
    /\ request.credential = "viewer"
    /\ response.status = 403
    /\ store # {}

\* ------------------------------------------------------------------- C15

\* C15: every record of the store has quantity > 0, unit_price > 0 and
\* total_amount > 0.
C15_StoredAmountsPositive ==
    \A r \in store : r.quantity > 0 /\ r.unit_price > 0 /\ r.total_amount > 0

\* ------------------------------------------------------------------- C16

\* order_data of the lines among rs that were appended to the batch, in order.
RECURSIVE ValidData(_)
ValidData(rs) ==
    IF rs = <<>> THEN <<>>
    ELSE (IF ValidRow(Head(rs)) THEN <<OrderData(Head(rs))>> ELSE <<>>)
         \o ValidData(Tail(rs))

\* The rows the statements as carried before deduplication, in order.
RECURSIVE Offered(_)
Offered(as) ==
    IF as = <<>> THEN <<>> ELSE Head(as).batch \o Offered(Tail(as))

\* C16: during a run the valid rows read are, in order and each once, the rows of
\* the statements executed followed by the pending rows; when the run has ended
\* every valid row was in one statement, and none is left pending without one.
C16_ValidRowsOfferedOnce ==
    /\ phase = "parsing" => Offered(attempts) \o batch = ValidData(rows)
    /\ phase \in {"completed", "failed"} => Offered(attempts) = ValidData(rows)

\* ------------------------------------------------------------------- C17

\* C17: between two rows fewer than BATCH_SIZE rows are pending; a statement
\* carries at least one and at most BATCH_SIZE rows, counted before
\* deduplication; it carries fewer than BATCH_SIZE only as the last statement of
\* a completed run, the flush at the end of the stream.
C17_FlushAtThreshold ==
    /\ Len(batch) < BATCH_SIZE
    /\ \A i \in 1..Len(attempts) :
          /\ Len(attempts[i].batch) >= 1
          /\ Len(attempts[i].batch) <= BATCH_SIZE
          /\ Len(attempts[i].recs) <= Len(attempts[i].batch)
          /\ Len(attempts[i].batch) < BATCH_SIZE =>
                i = Len(attempts) /\ phase = "completed"

\* A completed run with a flush at the threshold whose rows share an order_id,
\* and a shorter flush at the end of the stream.
C17_Witness ==
    /\ phase = "completed"
    /\ Len(attempts) = 2
    /\ Len(attempts[1].batch) = BATCH_SIZE
    /\ Len(attempts[1].recs) < BATCH_SIZE
    /\ Len(attempts[2].batch) < BATCH_SIZE

\* ------------------------------------------------------------------- C18

\* C18: a rejected statement, a full batch or the remainder at the end of the
\* stream, appends one entry to errors and leaves the entries before it, whatever
\* the number of rows of the batch and the length of errors.
C18_OneEntryPerRejectedBatch ==
    [][(StatementStep /\ ~attempts'[Len(attempts')].ok) =>
            /\ Len(errors') = Len(errors) + 1
            /\ SubSeq(errors', 1, Len(errors)) = errors
            /\ errors'[Len(errors')].row = 0
            /\ errors'[Len(errors')].text
                 = IF phase' = "completed" THEN "Final batch insert failed"
                   ELSE "Batch insert failed"
      ]_vars

\* The entry of a rejected batch appended to a list that held MAX_ERRORS entries.
C18_Witness ==
    /\ Len(errors) > MAX_ERRORS
    /\ errors[Len(errors)].row = 0
    /\ ~LastAttempt.ok

\* ------------------------------------------------------------------- C19

\* The step ends the run in the outer exception handler.
AbortStep == phase = "parsing" /\ phase' = "failed"

\* C19: no step removes an order_id from the store; a rejected statement with
\* its rollback, and the abort of the run with its rollback, leave the store as
\* the statements committed before left it.
C19_CommittedBatchesStay ==
    [][/\ KeysOf(store) \subseteq KeysOf(store')
       /\ (StatementStep /\ ~attempts'[Len(attempts')].ok) => store' = store
       /\ AbortStep => store' = store
       /\ ~StatementStep => store' = store
      ]_vars

\* A run aborted after it committed a batch, whose records are in the store.
C19_Witness ==
    /\ phase = "failed"
    /\ attempts # <<>>
    /\ LastAttempt.ok
    /\ \A d \in {LastAttempt.recs[i] : i \in 1..Len(LastAttempt.recs)} :
          \E r \in store : r.order_id = d.order_id /\ SameMutable(r, d)

\* ------------------------------------------------------------------- C20

\* C20 as stated: the row number of a row entry is the position of its row among
\* the data rows, the first data row being row 1.
C20_RowNumberFromOne ==
    /\ \A i \in 1..Len(RowEntries) : RowEntries[i].row \in InvalidRows
    /\ 1 \in InvalidRows => (RowEntries # <<>> /\ RowEntries[1].row = 1)

\* The position among the data rows of the row an entry reports.
PositionOf(e) == e.row - FIRST_ROW_NUM + 1

\* C20 amended: the row number of a row entry is the position of its row among
\* the data rows plus one, the header being counted as row 1; the
\* entry carries the error of that row, entries are in the order of the rows, and
\* an error in the first data row is reported as row FIRST_ROW_NUM.
C20_RowNumberCountsHeader ==
    /\ \A i \in 1..Len(RowEntries) :
          /\ PositionOf(RowEntries[i]) \in InvalidRows
          /\ RowEntries[i]
               = RowErrorEntry(RowEntries[i].row, RowError(rows[PositionOf(RowEntries[i])]))
          /\ \A j \in (i + 1)..Len(RowEntries) : RowEntries[i].row < RowEntries[j].row
    /\ 1 \in InvalidRows => (RowEntries # <<>> /\ RowEntries[1].row = FIRST_ROW_NUM)

\* Errors in the first and the third data row, with a valid row between them.
C20_Witness ==
    /\ InvalidRows = {1, 3}
    /\ Len(RowEntries) = 2
    /\ RowEntries[1].row = FIRST_ROW_NUM
    /\ RowEntries[2].row = FIRST_ROW_NUM + 2

\* ------------------------------------------------------------------- C13

\* The records of the statement a step commits, of either worker; none when the
\* step commits no statement.
CommittedNow ==
    IF Len(attempts') = Len(attempts) + 1 /\ attempts'[Len(attempts')].ok
    THEN attempts'[Len(attempts')].recs
    ELSE IF Len(other'.attempts) = Len(other.attempts) + 1
            /\ other'.attempts[Len(other'.attempts)].ok
    THEN other'.attempts[Len(other'.attempts)].recs
    ELSE <<>>

\* C13: with two workers uploading files that share order_ids, the table holds
\* one record per order_id; a step that commits a statement leaves, for each
\* order_id of the statement, the record whose mutable fields are all those of
\* the statement's row, and every other record as it was; a step that commits
\* none leaves the table as it was. So each record has the mutable fields of the
\* row of the last statement committed for its order_id.
C13_LastCommittedWinsWhole ==
    [][/\ \A k \in KeysOf(store') : Cardinality(RowsOf(store', k)) = 1
       /\ \A i \in 1..Len(CommittedNow) :
             \A r \in RowsOf(store', CommittedNow[i].order_id) :
                SameMutable(r, CommittedNow[i])
       /\ \A r \in store' :
             \/ r \in store
             \/ \E i \in 1..Len(CommittedNow) : r.order_id = CommittedNow[i].order_id
       /\ \A i \in 1..Len(CommittedNow) : RowsOf(store', CommittedNow[i].order_id) # {}
      ]_vars

\* Both workers committed a batch with the same order_id before the first
\* worker's run ended, the other worker last, and the record is the other
\* worker's row.
C13_Witness ==
    /\ phase = "parsing"
    /\ other.phase = "completed"
    /\ attempts # <<>>
    /\ other.attempts # <<>>
    /\ LastAttempt.ok
    /\ other.attempts[Len(other.attempts)].ok
    /\ LastAttempt.at < other.attempts[Len(other.attempts)].at
    /\ \E i \in 1..Len(LastAttempt.recs) :
          \E j \in 1..Len(other.attempts[Len(other.attempts)].recs) :
             LET mine == LastAttempt.recs[i]
                 theirs == other.attempts[Len(other.attempts)].recs[j]
             IN  /\ mine.order_id = theirs.order_id
                 /\ mine.status # theirs.status
                 /\ \A r \in RowsOf(store, mine.order_id) : SameMutable(r, theirs)

\* ------------------------------------------------------------------- C21

\* The four field constraints in the order of the contract: whether order_data d
\* violates the i-th, and the cause reported for it.
ViolatedAt(d, i) ==
    CASE i = 1 -> d.order_id = ""
      [] i = 2 -> d.customer_email = ""
      [] i = 3 -> ~(d.quantity > 0)
      [] i = 4 -> ~(d.unit_price > 0)

CauseAt(i) ==
    CASE i = 1 -> "ValueError: order_id is required"
      [] i = 2 -> "ValueError: customer_email is required"
      [] i = 3 -> "ValueError: quantity must be positive"
      [] i = 4 -> "ValueError: unit_price must be positive"

\* The constraints a row whose fields all parse violates.
Violations(row) == {i \in 1..4 : ViolatedAt(OrderData(row), i)}

\* The row a step reads.
RowRead == rows'[Len(rows')]

\* C21: a row whose fields parse and that violates one or more of the four
\* constraints is counted as failed once and gets, while errors has room, one
\* entry, whose cause is that of the violated constraint that comes first in the
\* order order_id, customer_email, quantity, unit_price; it is not appended to
\* the batch, and a row that violates none gets no entry.
C21_FirstViolationReported ==
    [][(RowStep /\ FieldError(RowRead) = "") =>
            IF Violations(RowRead) # {}
            THEN /\ records_failed' = records_failed + 1
                 /\ batch' = batch
                 /\ store' = store
                 /\ errors' = IF Len(errors) < MAX_ERRORS
                              THEN Append(errors,
                                      [row |-> Len(rows') + 1,
                                       text |-> CauseAt(CHOOSE i \in Violations(RowRead) :
                                                  \A j \in Violations(RowRead) : i <= j)])
                              ELSE errors
            ELSE /\ Len(RowEntries') = Len(RowEntries)
                 /\ (batch' = Append(batch, OrderData(RowRead)) \/ batch' = <<>>)
      ]_vars

\* A row with a blank order_id, an empty customer_email and quantity 0, reported
\* as missing its order_id.
C21_Witness ==
    /\ rows # <<>>
    /\ Strip(rows[Len(rows)].order_id) = ""
    /\ rows[Len(rows)].quantity = "0"
    /\ rows[Len(rows)].customer_email = ""
    /\ errors # <<>>
    /\ errors[Len(errors)] = [row |-> Len(rows) + 1, text |-> "ValueError: order_id is required"]

\* ------------------------------------------------------------------- C22

\* The sum, over the committed statements among as, of the number of distinct
\* order_ids of the batch.
RECURSIVE DistinctCommitted(_)
DistinctCommitted(as) ==
    IF as = <<>> THEN 0
    ELSE (IF Head(as).ok
          THEN Cardinality({Head(as).batch[i].order_id : i \in 1..Len(Head(as).batch)})
          ELSE 0)
         + DistinctCommitted(Tail(as))

\* C22: no step of a run decreases records_processed, records_created or
\* records_failed; after every step records_created + records_failed is at most
\* records_processed, and records_created is the sum over the committed batches
\* of their numbers of distinct order_ids, an order_id of two committed batches
\* being counted in both.
C22_CountersMonotone ==
    [][/\ phase = "parsing" =>
            /\ records_processed' >= records_processed
            /\ records_created' >= records_created
            /\ records_failed' >= records_failed
       /\ records_created' + records_failed' <= records_processed'
       /\ records_created' = DistinctCommitted(attempts')
      ]_vars

\* A completed run whose two committed batches share an order_id: it is counted
\* in both, and records_created exceeds the number of orders stored.
C22_Witness ==
    /\ phase = "completed"
    /\ Len(attempts) = 2
    /\ attempts[1].ok
    /\ attempts[2].ok
    /\ \E i \in 1..Len(attempts[1].recs), j \in 1..Len(attempts[2].recs) :
          attempts[1].recs[i].order_id = attempts[2].recs[j].order_id
    /\ records_created > Cardinality(store)
    /\ records_created + records_failed = records_processed

\* ------------------------------------------------------------------- C23

\* The order_ids of the statement a step commits.
CommittedKeys == {CommittedNow[i].order_id : i \in 1..Len(CommittedNow)}

\* C23: every record of the table whose order_id is not in the statement a step
\* commits is in the table after the step with every field as it was, id,
\* created_at and updated_at included; a record whose order_id is in the
\* statement keeps its order_id, id and created_at; no step deletes a record.
C23_OtherOrdersUntouched ==
    [][/\ \A r \in store : r.order_id \notin CommittedKeys => r \in store'
       /\ \A r \in store :
             \E q \in store' :
                q.order_id = r.order_id /\ q.id = r.id /\ q.created_at = r.created_at
       /\ Cardinality(store') >= Cardinality(store)
      ]_vars

\* A committed statement updated one stored order in place and left another,
\* stored before it, as it was.
C23_Witness ==
    /\ attempts # <<>>
    /\ LastAttempt.ok
    /\ now = LastAttempt.at
    /\ \E r, q \in store :
          /\ r.order_id \notin {LastAttempt.recs[i].order_id : i \in 1..Len(LastAttempt.recs)}
          /\ r.updated_at < LastAttempt.at
          /\ q.updated_at = LastAttempt.at
          /\ q.created_at < LastAttempt.at

\* ------------------------------------------------------------------- C24

\* C24: in the report of a completed run errors is None exactly when
\* records_failed is 0; when a row or a batch failed, errors is a non-empty list
\* of entries, the list the run accumulated.
C24_ErrorsAbsentIffNoFailure ==
    phase = "completed" =>
        /\ response.status = 200
        /\ (response.errors = NoErrors) <=> (response.records_failed = 0)
        /\ response.records_failed > 0 =>
              /\ response.errors = ErrorList(errors)
              /\ Len(errors) >= 1
        /\ response.records_failed = 0 => errors = <<>>

\* A completed run whose only failure is a rejected batch, reported with a list
\* of one entry.
C24_Witness ==
    /\ phase = "completed"
    /\ InvalidRows = {}
    /\ response.records_failed > 0
    /\ response.records_created > 0
    /\ response.errors # NoErrors
    /\ Len(response.errors.list) = 1
=============================================================================
